---- MODULE Spec2Model ----
(***************************************************************************)
(* Model of src/md_excel.py: the Markdown/Excel/CSV converter.             *)
(*                                                                         *)
(* Text is a sequence of one-character strings, so that splitting,         *)
(* stripping, joining and the separator regular expression are computed    *)
(* character by character as the Python code computes them.                *)
(***************************************************************************)
EXTENDS Integers, Sequences, FiniteSets, TLC

VARIABLES
    pc,           \* position in the program / in the codec exercise
    input_ext,    \* main: suffix of the input path, lower-cased
    to,           \* main: value of -t/--to
    op,           \* operation main dispatched to ("none" before dispatch)
    fileExists,   \* whether the input path can be opened
    fileBytes,    \* raw bytes of the input file
    encIdx,       \* detect_encoding: index of the next candidate to try
    examined,     \* detect_encoding: candidates tried so far, in order
    encoding,     \* detect_encoding: returned encoding ("none" before return)
    usedFallback, \* detect_encoding: the code after the candidate loop ran
    content,      \* decoded text handed to _extract_markdown_tables
    tables,       \* list of tables (extraction result / sheets read)
    df,           \* DataFrame being rendered or parsed from CSV
    tried,        \* convert_csv_to_md: delimiters passed to read_csv, in order
    md_content,   \* Markdown text built by a renderer
    output,       \* what has been written to the output file
    ret,          \* return value of the operation ("none" while running)
    exc,          \* exception that left the operation uncaught ("none" if none)
    block,        \* codec exercise: lines handed to _parse_table_lines
    parsed,       \* codec exercise: result of _parse_table_lines
    path          \* codec exercise: which renderer is used

vars == <<pc, input_ext, to, op, fileExists, fileBytes, encIdx, examined,
          encoding, usedFallback, content, tables, df, tried, md_content,
          output, ret, exc, block, parsed, path>>

(***************************************************************************)
(* Bounds of the model. SampleSize stands for sample_size (1024 in the     *)
(* code), scaled down so that a file can be longer than its sample.        *)
(***************************************************************************)
MaxDocLines == 5
MaxBlockLines == 3
MaxCols == 2
MaxRows == 2
MaxFileLen == 3
SampleSize == 2

(***************************************************************************)
(* Python string primitives.                                               *)
(***************************************************************************)
Whitespace == {" ", "\t", "\n", "\r"}

MaxOf(S) == CHOOSE m \in S : \A x \in S : x <= m
MinOf(S) == CHOOSE m \in S : \A x \in S : m <= x

\* str.rstrip()
RStrip(s) ==
    LET keep == {i \in 1..Len(s) : s[i] \notin Whitespace}
    IN  IF keep = {} THEN <<>> ELSE SubSeq(s, 1, MaxOf(keep))

\* str.lstrip()
LStrip(s) ==
    LET keep == {i \in 1..Len(s) : s[i] \notin Whitespace}
    IN  IF keep = {} THEN <<>> ELSE SubSeq(s, MinOf(keep), Len(s))

\* str.strip()
Strip(s) == LStrip(RStrip(s))

\* c in s
Contains(s, c) == \E i \in 1..Len(s) : s[i] = c

\* s.startswith(c)
StartsWith(s, c) == Len(s) >= 1 /\ s[1] = c

\* s.split(c): one more piece than there are occurrences of c
Split(s, c) ==
    LET seps == {i \in 1..Len(s) : s[i] = c}
        n == Cardinality(seps)
        Nth(k) == CHOOSE i \in seps : Cardinality({j \in seps : j < i}) = k - 1
        first(k) == IF k = 1 THEN 1 ELSE Nth(k - 1) + 1
        last(k) == IF k = n + 1 THEN Len(s) ELSE Nth(k) - 1
    IN  [k \in 1..(n + 1) |-> SubSeq(s, first(k), last(k))]

\* xs[1:-1]
Slice1m1(xs) == IF Len(xs) <= 2 THEN <<>> ELSE SubSeq(xs, 2, Len(xs) - 1)

\* sep.join(parts)
RECURSIVE Join(_, _)
Join(parts, sep) ==
    IF Len(parts) = 0 THEN <<>>
    ELSE IF Len(parts) = 1 THEN parts[1]
    ELSE parts[1] \o sep \o Join(Tail(parts), sep)

NL == <<"\n">>

(***************************************************************************)
(* _parse_table_lines                                                      *)
(***************************************************************************)
None == [none |-> TRUE]

\* [cell.strip() for cell in line.split('|')[1:-1]]
Cells(line) ==
    LET inner == Slice1m1(Split(line, "|"))
    IN  [k \in 1..Len(inner) |-> Strip(inner[k])]

\* the character class [\s:-] of the separator pattern
SepClass == Whitespace \cup {":", "-"}

\* end of the longest run of SepClass characters starting at position i
\* (i - 1 when the run is empty)
RunEnd(s, i) ==
    LET stops == {j \in i..Len(s) : s[j] \notin SepClass}
    IN  IF stops = {} THEN Len(s) ELSE MinOf(stops) - 1

\* re.match(r'^\|[\s:-]+\|[\s:-]+\|', line)
SepMatch(line) ==
    /\ Len(line) >= 1
    /\ line[1] = "|"
    /\ LET e1 == RunEnd(line, 2)
       IN  /\ e1 >= 2
           /\ e1 + 1 <= Len(line)
           /\ line[e1 + 1] = "|"
           /\ LET e2 == RunEnd(line, e1 + 2)
              IN  /\ e2 >= e1 + 2
                  /\ e2 + 1 <= Len(line)
                  /\ line[e2 + 1] = "|"

\* lines[2:] when the second line matches the separator pattern, else lines[1:]
DataLines(lines) ==
    IF SepMatch(lines[2]) THEN SubSeq(lines, 3, Len(lines))
    ELSE SubSeq(lines, 2, Len(lines))

\* variant of ParseRows that also keeps a line with fewer cells than headers
\* (len(cells) <= len(headers)); C3 must tell it from the code
RECURSIVE ParseRowsAtMost(_, _)
ParseRowsAtMost(data_lines, k) ==
    IF Len(data_lines) = 0 THEN <<>>
    ELSE LET line == Head(data_lines)
             cells == Cells(line)
             rest == ParseRowsAtMost(Tail(data_lines), k)
         IN  IF Strip(line) # <<>> /\ Contains(line, "|") /\ Len(cells) <= k
             THEN <<cells>> \o rest
             ELSE rest

\* the loop over data_lines: keep the cells of a line iff there are as many
\* as headers
RECURSIVE ParseRows(_, _)
ParseRows(data_lines, k) ==
    IF Len(data_lines) = 0 THEN <<>>
    ELSE LET line == Head(data_lines)
             cells == Cells(line)
             rest == ParseRows(Tail(data_lines), k)
         IN  IF Strip(line) # <<>> /\ Contains(line, "|") /\ Len(cells) = k
             THEN <<cells>> \o rest
             ELSE rest

parse_table_lines(lines) ==
    IF Len(lines) < 2 THEN None
    ELSE LET headers == Cells(lines[1])
             data == ParseRows(DataLines(lines), Len(headers))
         IN  IF headers = <<>> THEN None
             ELSE [columns |-> headers, data |-> data]

(***************************************************************************)
(* _extract_markdown_tables                                                *)
(***************************************************************************)
\* '|' in line and line.strip().startswith('|'), on the rstripped line
IsTableLine(line) == Contains(line, "|") /\ StartsWith(Strip(line), "|")

\* tables.append(table_df) unless table_df is None
AppendParsed(tbls, current_table) ==
    LET table_df == parse_table_lines(current_table)
    IN  IF table_df # None THEN Append(tbls, table_df) ELSE tbls

\* variant of Flush without the code after the loop, so that a block that
\* ends at end of input is lost; C1 must tell it from the code
FlushNever(in_table, current_table, tbls) == tbls

\* the code after the loop: the block still open at end of input is parsed

Flush(in_table, current_table, tbls) ==
    IF in_table /\ current_table # <<>> THEN AppendParsed(tbls, current_table)
    ELSE tbls

\* the loop over lines, from line i on
RECURSIVE ScanLines(_, _, _, _, _)
ScanLines(lines, i, in_table, current_table, tbls) ==
    IF i > Len(lines) THEN Flush(in_table, current_table, tbls)
    ELSE LET line == RStrip(lines[i])
         IN  IF IsTableLine(line)
             THEN ScanLines(lines, i + 1, TRUE, Append(current_table, line), tbls)
             ELSE IF in_table /\ current_table # <<>>
             THEN ScanLines(lines, i + 1, FALSE, <<>>,
                            AppendParsed(tbls, current_table))
             ELSE ScanLines(lines, i + 1, in_table, current_table, tbls)

extract_markdown_tables(text) == ScanLines(Split(text, "\n"), 1, FALSE, <<>>, <<>>)

(***************************************************************************)
(* Rendering: _dataframe_to_md and excel_to_md                             *)
(***************************************************************************)
\* a missing value (NaN) of a DataFrame cell
NaN == <<"NaN">>

\* df.empty
DfEmpty(d) == Len(d.columns) = 0 \/ Len(d.data) = 0

\* df.fillna('')
FillNa(d) ==
    [columns |-> d.columns,
     data |-> [r \in 1..Len(d.data) |->
                 [c \in 1..Len(d.data[r]) |->
                    IF d.data[r][c] = NaN THEN <<>> ELSE d.data[r][c]]]]

\* "| " + " | ".join(cells) + " |\n"
RenderLine(cells) ==
    <<"|", " ">> \o Join(cells, <<" ", "|", " ">>) \o <<" ", "|", "\n">>

\* ["---"] * len(headers)
SepCells(n) == [k \in 1..n |-> <<"-", "-", "-">>]

\* [str(cell) if pd.notna(cell) else "" for cell in row]
RowData(row) == [c \in 1..Len(row) |-> IF row[c] = NaN THEN <<>> ELSE row[c]]

RECURSIVE RenderRows(_)
RenderRows(rows) ==
    IF Len(rows) = 0 THEN <<>>
    ELSE RenderLine(RowData(Head(rows))) \o RenderRows(Tail(rows))

\* variant of TableMd that omits the separator line; C5 must tell it from
\* the code
TableMdNoSeparator(d) ==
    RenderLine(d.columns) \o RenderRows(FillNa(d).data)

\* header line, separator line, one line per row

TableMd(d) ==
    RenderLine(d.columns)
    \o RenderLine(SepCells(Len(d.columns)))
    \o RenderRows(FillNa(d).data)

\* md_content of excel_to_md for the sheets read
RECURSIVE SheetsMd(_, _)
SheetsMd(sheets, many) ==
    IF Len(sheets) = 0 THEN <<>>
    ELSE LET sh == Head(sheets)
         IN  (IF many THEN <<"#", "#", " ">> \o sh.name \o NL \o NL ELSE <<>>)
             \o (IF ~DfEmpty(sh.df) THEN TableMd(sh.df) ELSE <<>>)
             \o NL
             \o SheetsMd(Tail(sheets), many)

excel_to_md_content(sheets) == SheetsMd(sheets, Len(sheets) > 1)

(***************************************************************************)
(* Inputs of the codec exercise.                                           *)
(***************************************************************************)
LineAB == <<"|", " ", "A", " ", "|", " ", "B", " ", "|">>
LineC == <<" ", "|", " ", "C", " ", "|", " ">>
LinePipe == <<"|">>
LineText == <<"x">>
LineBlank == <<>>
LineSep2 == <<"|", " ", "-", "-", "-", " ", "|", " ", "-", "-", "-", " ", "|">>
LineC1 == <<"|", " ", "C", " ", "|">>
LineSep1 == <<"|", " ", "-", "-", "-", " ", "|">>
LineOpen == <<"|", " ", "A", " ", "|", " ", "B">>
LineSepX == <<"|", " ", "-", " ", "|", ":", "-", "|", " ", "x", " ", "|">>

DocLineKinds ==
    {LineAB, LineC, LinePipe, LineText, LineBlank, LineSep2, LineOpen}
BlockLineKinds == {LineAB, LineSep2, LineC1, LineSep1, LineOpen, LineSepX}

SeqsUpTo(S, lo, hi) == UNION {[1..n -> S] : n \in lo..hi}

Docs == {Join(ls, NL) : ls \in SeqsUpTo(DocLineKinds, 1, MaxDocLines)}
Blocks == SeqsUpTo(BlockLineKinds, 1, MaxBlockLines)

HeaderCells == {<<"A">>, <<" ", "B">>}
DataCells == {<<"x">>, NaN}

TablesOf(c) ==
    {[columns |-> h, data |-> d] :
        h \in [1..c -> HeaderCells],
        d \in SeqsUpTo([1..c -> DataCells], 0, MaxRows)}
Tables == UNION {TablesOf(c) : c \in 1..MaxCols}

SheetName == <<"S">>

(***************************************************************************)
(* The codec exercise: the pure functions applied to bounded inputs.       *)
(***************************************************************************)
NoDf == [columns |-> <<>>, data |-> <<>>]
NoOutput == [kind |-> "none"]

ProgramIdle ==
    /\ input_ext = "" /\ to = "" /\ op = "none"
    /\ fileExists = FALSE /\ fileBytes = <<>>
    /\ encIdx = 1 /\ examined = <<>> /\ encoding = "none"
    /\ usedFallback = FALSE
    /\ tried = <<>> /\ output = NoOutput /\ ret = "none" /\ exc = "none"

InitCodec ==
    /\ ProgramIdle
    /\ tables = <<>> /\ md_content = <<>> /\ parsed = None
    /\ \/ /\ pc = "doc" /\ content \in Docs
          /\ block = <<>> /\ df = NoDf /\ path = "none"
       \/ /\ pc = "block" /\ block \in Blocks
          /\ content = <<>> /\ df = NoDf /\ path = "none"
       \/ /\ pc = "table" /\ df \in Tables /\ path \in {"df", "excel"}
          /\ content = <<>> /\ block = <<>>

ProgramVars == <<input_ext, to, op, fileExists, fileBytes, encIdx, examined,
                 encoding, usedFallback, tried, output, ret, exc>>

\* _extract_markdown_tables(content)
ExtractDoc ==
    /\ pc = "doc"
    /\ tables' = extract_markdown_tables(content)
    /\ pc' = "extracted"
    /\ UNCHANGED <<ProgramVars, content, df, md_content, block, parsed, path>>

\* _parse_table_lines(block)
ParseBlock ==
    /\ pc = "block"
    /\ parsed' = parse_table_lines(block)
    /\ pc' = "parsed"
    /\ UNCHANGED <<ProgramVars, content, tables, df, md_content, block, path>>

\* the Markdown text a renderer builds for df: _dataframe_to_md returns
\* before building anything when df.empty; excel_to_md is given one sheet
RenderTable ==
    /\ pc = "table"
    /\ md_content' = IF path = "df"
                     THEN (IF DfEmpty(df) THEN <<>> ELSE TableMd(df))
                     ELSE excel_to_md_content(<<[name |-> SheetName, df |-> df]>>)
    /\ pc' = "rendered"
    /\ UNCHANGED <<ProgramVars, content, tables, df, block, parsed, path>>

\* the rendered text read back through _extract_markdown_tables
ReExtract ==
    /\ pc = "rendered"
    /\ content' = md_content
    /\ tables' = extract_markdown_tables(md_content)
    /\ pc' = "reextracted"
    /\ UNCHANGED <<ProgramVars, df, md_content, block, parsed, path>>

NextCodec == ExtractDoc \/ ParseBlock \/ RenderTable \/ ReExtract

SpecCodec == InitCodec /\ [][NextCodec]_vars

(***************************************************************************)
(* detect_encoding                                                         *)
(***************************************************************************)
\* variant of SUPPORTED_ENCODINGS that stops before the Latin family; C10
\* must tell it from the code
SUPPORTED_ENCODINGS_UpToKorean ==
    <<"utf-8", "utf-8-sig", "gbk", "gb2312", "gb18030", "big5", "shift_jis",
      "euc-jp", "euc-kr", "cp949">>

\* SUPPORTED_ENCODINGS, in priority order
SUPPORTED_ENCODINGS ==
    <<"utf-8", "utf-8-sig", "gbk", "gb2312", "gb18030", "big5", "shift_jis",
      "euc-jp", "euc-kr", "cp949", "latin-1", "iso-8859-1", "cp1251",
      "cp1252", "koi8-r", "ascii">>

\* Representative byte values: an ASCII digit (0x30), a UTF-8 two-byte lead
\* (0xC3), a UTF-8 continuation byte (0xA9), a byte that is a lead byte of the
\* GBK family only (0x81), and a byte no multi-byte encoding accepts (0xFF).
ByteSet == {48, 195, 169, 129, 255}
Files == SeqsUpTo(ByteSet, 0, MaxFileLen)

\* bytes the codec decodes on their own
SingleBytes(enc) ==
    IF enc \in {"latin-1", "iso-8859-1", "cp1251", "koi8-r"} THEN ByteSet
    ELSE IF enc = "cp1252" THEN ByteSet \ {129}
    ELSE IF enc = "shift_jis" THEN {48, 195, 169}
    ELSE {48}

\* two-byte sequences the codec decodes as one character
DoubleBytes(enc) ==
    IF enc \in {"utf-8", "utf-8-sig"} THEN {<<195, 169>>, <<195, 129>>}
    ELSE IF enc \in {"gbk", "gb18030", "cp949"}
         THEN {195, 169, 129} \X {195, 169, 129}
    ELSE IF enc \in {"gb2312", "big5", "euc-kr"} THEN {195, 169} \X {195, 169}
    ELSE IF enc = "shift_jis" THEN {<<129, 169>>, <<129, 129>>}
    ELSE IF enc = "euc-jp" THEN {<<195, 195>>, <<195, 169>>}
    ELSE {}

\* four-byte sequences the codec decodes as one character
FourBytes(enc) ==
    IF enc = "gb18030"
    THEN {<<a, 48, b, 48>> : a \in {195, 169, 129}, b \in {195, 169, 129}}
    ELSE {}

\* bytes.decode(enc, errors='strict') raises no UnicodeDecodeError
RECURSIVE DecodesStrict(_, _)
DecodesStrict(enc, bytes) ==
    IF Len(bytes) = 0 THEN TRUE
    ELSE IF bytes[1] \in SingleBytes(enc)
    THEN DecodesStrict(enc, SubSeq(bytes, 2, Len(bytes)))
    ELSE IF Len(bytes) >= 2 /\ SubSeq(bytes, 1, 2) \in DoubleBytes(enc)
    THEN DecodesStrict(enc, SubSeq(bytes, 3, Len(bytes)))
    ELSE IF Len(bytes) >= 4 /\ SubSeq(bytes, 1, 4) \in FourBytes(enc)
    THEN DecodesStrict(enc, SubSeq(bytes, 5, Len(bytes)))
    ELSE FALSE

\* f.read(sample_size)
Sample(bytes) ==
    IF Len(bytes) <= SampleSize THEN bytes ELSE SubSeq(bytes, 1, SampleSize)

\* variant of CandidatePasses without the text read; C6 must tell it from
\* the code
CandidatePassesSampleOnly(enc, bytes) == DecodesStrict(enc, Sample(bytes))

\* the body of the try: the strict decode of the sample, then the text read of
\* 100 characters (a file shorter than that is decoded to its end)

CandidatePasses(enc, bytes) ==
    DecodesStrict(enc, Sample(bytes)) /\ DecodesStrict(enc, bytes)

\* result['confidence'] > 0.7, confidences in tenths
ConfidenceThreshold == 7
Confidences == {0, 5, 9}

(***************************************************************************)
(* The program: main and the three conversion operations.                  *)
(***************************************************************************)
Exts == {".md", ".xlsx", ".csv", ".txt"}
ToChoices == {"excel", "md", "auto"}

DfSample == [columns |-> <<<<"A">>, <<"B">>>>, data |-> << <<<<"x">>, NaN>> >>]
DfNoRows == [columns |-> <<<<"A">>>>, data |-> <<>>]
CsvDfs == {DfSample, DfNoRows}

Workbooks ==
    {<<[name |-> <<"S">>, df |-> DfSample]>>,
     <<[name |-> <<"T">>, df |-> DfNoRows]>>,
     <<[name |-> <<"S">>, df |-> DfSample], [name |-> <<"T">>, df |-> DfNoRows]>>}
SheetArgs == {<<>>, <<"S">>, <<"T">>}

DocSamples ==
    {LineText,
     Join(<<LineAB, LineSep2, LineAB>>, NL),
     Join(<<LineAB, LineSep2, LineBlank, LineC1, LineC1, LineBlank>>, NL)}

CodecIdle == block = <<>> /\ parsed = None /\ path = "none"
CodecVars == <<block, parsed, path>>

Init ==
    /\ pc = "main"
    /\ input_ext \in Exts
    /\ to \in ToChoices
    /\ op = "none"
    /\ fileExists \in BOOLEAN
    /\ fileBytes \in (IF fileExists THEN Files ELSE {<<>>})
    /\ encIdx = 1 /\ examined = <<>> /\ encoding = "none"
    /\ usedFallback = FALSE
    /\ content = <<>> /\ tables = <<>> /\ df = NoDf /\ tried = <<>>
    /\ md_content = <<>> /\ output = NoOutput /\ ret = "none" /\ exc = "none"
    /\ CodecIdle

\* main: the conversion direction and the operation called
ToType ==
    IF to = "auto"
    THEN (IF input_ext \in {".md", ".markdown"} THEN "excel"
          ELSE IF input_ext \in {".xlsx", ".xls"} THEN "md"
          ELSE IF input_ext = ".csv" THEN "md"
          ELSE "none")
    ELSE to

Main ==
    /\ pc = "main"
    /\ op' = IF ToType = "excel" THEN "md_to_excel"
             ELSE IF ToType = "md"
                  THEN (IF input_ext = ".csv" THEN "convert_csv_to_md"
                        ELSE "excel_to_md")
             ELSE "none"
    /\ pc' = IF op' = "none" THEN "exit"
             ELSE IF op' = "excel_to_md" THEN "read_excel"
             ELSE "detect"
    /\ UNCHANGED <<input_ext, to, fileExists, fileBytes, encIdx, examined,
                   encoding, usedFallback, content, tables, df, tried,
                   md_content, output, ret, exc, CodecVars>>

AfterDetect == IF op = "md_to_excel" THEN "read_md" ELSE "read_csv"

\* detect_encoding, one step: an iteration of the candidate loop, or (once
\* the list is exhausted) the code after the loop. open() of a missing file
\* raises FileNotFoundError, which the except clause does not name.
\* Every name in the list is a codec Python knows, so LookupError is not
\* raised.
DetectStep ==
    /\ pc = "detect"
    /\ IF ~fileExists
       THEN /\ exc' = "FileNotFoundError"
            /\ pc' = "exit"
            /\ UNCHANGED <<encIdx, examined, encoding, usedFallback>>
       ELSE IF encIdx <= Len(SUPPORTED_ENCODINGS)
       THEN LET cand == SUPPORTED_ENCODINGS[encIdx]
            IN  /\ examined' = Append(examined, cand)
                /\ IF CandidatePasses(cand, fileBytes)
                   THEN /\ encoding' = cand
                        /\ pc' = AfterDetect
                        /\ UNCHANGED encIdx
                   ELSE /\ encIdx' = encIdx + 1
                        /\ UNCHANGED <<encoding, pc>>
                /\ UNCHANGED <<usedFallback, exc>>
       ELSE /\ usedFallback' = TRUE
            /\ \E available \in BOOLEAN, confidence \in Confidences,
                  guess \in {"ascii", "windows-1252"} :
                  encoding' = IF available /\ confidence > ConfidenceThreshold
                              THEN guess ELSE "utf-8"
            /\ pc' = AfterDetect
            /\ UNCHANGED <<encIdx, examined, exc>>
    /\ UNCHANGED <<input_ext, to, op, fileExists, fileBytes, content, tables,
                   df, tried, md_content, output, ret, CodecVars>>

\* md_to_excel: read the file, extract the tables, give up when there are none
ReadMd ==
    /\ pc = "read_md"
    /\ \/ /\ ret' = "False"
          /\ pc' = "exit"
          /\ UNCHANGED <<content, tables>>
       \/ \E doc \in DocSamples :
             /\ content' = doc
             /\ tables' = extract_markdown_tables(doc)
             /\ IF tables' = <<>>
                THEN ret' = "False" /\ pc' = "exit"
                ELSE ret' = ret /\ pc' = "write_excel"
    /\ UNCHANGED <<input_ext, to, op, fileExists, fileBytes, encIdx, examined,
                   encoding, usedFallback, df, tried, md_content, output, exc,
                   CodecVars>>

\* sheet_name_i = f"{sheet_name}_{i+1}" if i > 0 else sheet_name
SheetNameI(i) == IF i > 1 THEN <<"Sheet1", "_", i>> ELSE <<"Sheet1">>

\* md_to_excel: the ExcelWriter block, which is not inside a try
WriteExcel ==
    /\ pc = "write_excel"
    /\ \/ /\ output' = [kind |-> "xlsx",
                        sheets |-> [i \in 1..Len(tables) |->
                                      [name |-> SheetNameI(i), df |-> tables[i]]]]
          /\ ret' = "True"
          /\ exc' = exc
       \/ /\ exc' = "OSError"
          /\ UNCHANGED <<output, ret>>
    /\ pc' = "exit"
    /\ UNCHANGED <<input_ext, to, op, fileExists, fileBytes, encIdx, examined,
                   encoding, usedFallback, content, tables, df, tried,
                   md_content, CodecVars>>

\* the sheets read_excel returns for a sheet name (<<>>: all sheets)
SheetsRead(wb, sheet) ==
    IF sheet = <<>> THEN wb
    ELSE SelectSeq(wb, LAMBDA sh : sh.name = sheet)

\* excel_to_md: read the workbook (any failure is caught), build md_content
ReadExcel ==
    /\ pc = "read_excel"
    /\ \/ /\ ret' = "False"
          /\ pc' = "exit"
          /\ UNCHANGED <<tables, md_content>>
       \/ \E wb \in Workbooks, sheet \in SheetArgs :
             IF fileExists /\ SheetsRead(wb, sheet) # <<>>
             THEN /\ tables' = SheetsRead(wb, sheet)
                  /\ md_content' = excel_to_md_content(tables')
                  /\ pc' = "write_md"
                  /\ ret' = ret
             ELSE /\ ret' = "False"
                  /\ pc' = "exit"
                  /\ UNCHANGED <<tables, md_content>>
    /\ UNCHANGED <<input_ext, to, op, fileExists, fileBytes, encIdx, examined,
                   encoding, usedFallback, content, df, tried, output, exc,
                   CodecVars>>

\* excel_to_md: write md_content as UTF-8; a failure is caught
WriteMd ==
    /\ pc = "write_md"
    /\ \/ /\ output' = [kind |-> "md", text |-> md_content]
          /\ ret' = "True"
       \/ /\ ret' = "False"
          /\ UNCHANGED output
    /\ pc' = "exit"
    /\ UNCHANGED <<input_ext, to, op, fileExists, fileBytes, encIdx, examined,
                   encoding, usedFallback, content, tables, df, tried,
                   md_content, exc, CodecVars>>

\* convert_csv_to_md: the default of the delimiter parameter
DefaultDelimiter == ","

\* variant of FallbackDelimiters with tab tried before ';'; C8 must tell it
\* from the code
FallbackDelimitersTabFirst == <<"\t", ";", "|">>

\* convert_csv_to_md: the delimiters of the fallback loop, in order
FallbackDelimiters == <<";", "\t", "|">>

\* convert_csv_to_md: the first read_csv, with the given delimiter
ReadCsv ==
    /\ pc = "read_csv"
    /\ \/ /\ tried' = <<[sep |-> DefaultDelimiter, ok |-> FALSE]>>
          /\ pc' = "csv_fallback"
          /\ UNCHANGED df
       \/ \E d \in CsvDfs :
             /\ tried' = <<[sep |-> DefaultDelimiter, ok |-> TRUE]>>
             /\ df' = d
             /\ pc' = "df_to_md"
    /\ UNCHANGED <<input_ext, to, op, fileExists, fileBytes, encIdx, examined,
                   encoding, usedFallback, content, tables, md_content, output,
                   ret, exc, CodecVars>>

\* convert_csv_to_md: one iteration of the fallback loop; the else branch of
\* the loop returns False once the last delimiter has failed
CsvFallback ==
    /\ pc = "csv_fallback"
    /\ LET sep == FallbackDelimiters[Len(tried)]
       IN  \/ /\ tried' = Append(tried, [sep |-> sep, ok |-> FALSE])
              /\ IF Len(tried) = Len(FallbackDelimiters)
                 THEN ret' = "False" /\ pc' = "exit"
                 ELSE ret' = ret /\ pc' = pc
              /\ UNCHANGED df
           \/ \E d \in CsvDfs :
                 /\ tried' = Append(tried, [sep |-> sep, ok |-> TRUE])
                 /\ df' = d
                 /\ pc' = "df_to_md"
                 /\ ret' = ret
    /\ UNCHANGED <<input_ext, to, op, fileExists, fileBytes, encIdx, examined,
                   encoding, usedFallback, content, tables, md_content, output,
                   exc, CodecVars>>

\* _dataframe_to_md: refuse an empty DataFrame, else build the Markdown text
\* and write it as UTF-8; a write failure is caught
DataframeToMd ==
    /\ pc = "df_to_md"
    /\ IF DfEmpty(df)
       THEN /\ ret' = "False"
            /\ UNCHANGED <<md_content, output>>
       ELSE /\ md_content' = TableMd(df)
            /\ \/ /\ output' = [kind |-> "md", text |-> md_content']
                  /\ ret' = "True"
               \/ /\ ret' = "False"
                  /\ UNCHANGED output
    /\ pc' = "exit"
    /\ UNCHANGED <<input_ext, to, op, fileExists, fileBytes, encIdx, examined,
                   encoding, usedFallback, content, tables, df, tried, exc,
                   CodecVars>>

Next ==
    \/ Main
    \/ DetectStep
    \/ ReadMd
    \/ WriteExcel
    \/ ReadExcel
    \/ WriteMd
    \/ ReadCsv
    \/ CsvFallback
    \/ DataframeToMd

Spec == Init /\ [][Next]_vars

(***************************************************************************)
(* Claims about the Markdown table codec (checked under SpecCodec).        *)
(***************************************************************************)
\* number of elements of S below x, plus one: the position of x in S in order
RankIn(S, x) == Cardinality({y \in S : y < x}) + 1

\* a line that, after stripping leading whitespace, starts with '|'
StartsWithPipeAfterIndent(l) ==
    \E i \in 1..Len(l) : l[i] = "|" /\ \A j \in 1..(i - 1) : l[j] \in Whitespace

PipeCount(l) == Cardinality({i \in 1..Len(l) : l[i] = "|"})

\* first lines of the maximal runs of table lines of ls that have at least two
\* lines and whose first line has a field between two pipes
QualifyingRunStarts(ls) ==
    {a \in 1..Len(ls) :
        /\ StartsWithPipeAfterIndent(ls[a])
        /\ a = 1 \/ ~StartsWithPipeAfterIndent(ls[a - 1])
        /\ a + 1 <= Len(ls) /\ StartsWithPipeAfterIndent(ls[a + 1])
        /\ PipeCount(ls[a]) >= 2}

\* C1: _extract_markdown_tables returns exactly one Table per maximal run of
\* consecutive table lines that has at least 2 lines and a header with at
\* least one column, in document order (the i-th Table has the header of the
\* i-th such run), and nothing for any other run, also when the run ends at
\* end of input.
C1_OneTablePerQualifyingRun ==
    pc = "extracted" =>
        LET ls == Split(content, "\n")
            starts == QualifyingRunStarts(ls)
        IN  /\ Len(tables) = Cardinality(starts)
            /\ \A a \in starts :
                  tables[RankIn(starts, a)].columns = Cells(ls[a])

\* C1 witness: two different Tables were extracted in order, the second from a
\* block that ends at end of input.
C1_Witness ==
    /\ pc = "extracted"
    /\ Len(tables) = 2
    /\ tables[1].columns # tables[2].columns
    /\ LET ls == Split(content, "\n")
       IN  StartsWithPipeAfterIndent(ls[Len(ls)])

\* the fields of a line between pipes, trimmed, without the first and the last
\* field when (and only when) they are empty
FieldsBetweenOuterPipes(l) ==
    LET f == Split(l, "|")
        lo == IF Strip(f[1]) = <<>> THEN 2 ELSE 1
        hi == IF Strip(f[Len(f)]) = <<>> THEN Len(f) - 1 ELSE Len(f)
    IN  [k \in 1..(hi - lo + 1) |-> Strip(f[lo + k - 1])]

\* a separator line: it has cells and every cell holds only whitespace,
\* colons and hyphens
IsSeparatorLine(l) ==
    LET cs == FieldsBetweenOuterPipes(l)
    IN  /\ Len(cs) >= 1
        /\ \A k \in 1..Len(cs) : \A i \in 1..Len(cs[k]) : cs[k][i] \in SepClass

\* C2 (as claimed): rendering a Table without pipe characters (any column
\* count, any row count) and re-extracting the rendered text yields exactly
\* one Table with the same headers and rows, modulo whitespace trimming.
C2_RoundTrip ==
    pc = "reextracted" =>
        tables = << [columns |-> [c \in 1..Len(df.columns) |-> Strip(df.columns[c])],
                     data |-> [r \in 1..Len(df.data) |->
                                 [c \in 1..Len(df.data[r]) |->
                                    Strip(RowData(df.data[r])[c])]]] >>

\* C3: every row of every extracted Table has as many cells as the header has
\* columns; of the data lines of a block, exactly those with as many cells as
\* the header are kept, unchanged and in their original order.
C3_RowsMatchHeader ==
    /\ \A t \in 1..Len(tables) :
          \A r \in 1..Len(tables[t].data) :
             Len(tables[t].data[r]) = Len(tables[t].columns)
    /\ (pc = "parsed" /\ parsed # None) =>
          LET k == Len(parsed.columns)
              dl == DataLines(block)
              kept == {i \in 1..Len(dl) : PipeCount(dl[i]) - 1 = k}
          IN  /\ Len(parsed.data) = Cardinality(kept)
              /\ \A r \in 1..Len(parsed.data) : Len(parsed.data[r]) = k
              /\ \A i \in kept : parsed.data[RankIn(kept, i)] = Cells(dl[i])

\* C3 witness: a block was parsed in which one data line was kept and another
\* one dropped.
C3_Witness ==
    /\ pc = "parsed"
    /\ parsed # None
    /\ Len(parsed.data) >= 1
    /\ Len(parsed.data) < Len(DataLines(block))

\* C4 (as claimed): for any column count, a second line that is a separator
\* line is consumed and is no data row; a second line that is not a separator
\* line is treated as a data row.
C4_SeparatorConsumed ==
    (pc = "parsed" /\ parsed # None) =>
        parsed.data =
            ParseRows(IF IsSeparatorLine(block[2])
                      THEN SubSeq(block, 3, Len(block))
                      ELSE SubSeq(block, 2, Len(block)),
                      Len(parsed.columns))

\* one rendered line as the claim writes it: '| c1 | ... | cn |'
ClaimedLine(cells) ==
    LET RECURSIVE Body(_)
        Body(cs) == IF Len(cs) = 0 THEN <<>>
                    ELSE <<" ">> \o Head(cs) \o <<" ", "|">> \o Body(Tail(cs))
    IN  <<"|">> \o Body(cells)

\* the pieces of the rendered text between newlines are the header line, the
\* separator line with one '---' per column, the rows in order with missing
\* values empty, and then `extra` empty pieces
RendersAsClaimed(text, d, extra) ==
    LET ps == Split(text, "\n")
        r == Len(d.data)
    IN  /\ Len(ps) = r + 2 + extra
        /\ ps[1] = ClaimedLine(d.columns)
        /\ ps[2] = ClaimedLine([c \in 1..Len(d.columns) |-> <<"-", "-", "-">>])
        /\ \A i \in 1..r :
              ps[2 + i] = ClaimedLine([c \in 1..Len(d.columns) |->
                                        IF d.data[i][c] = NaN THEN <<>>
                                        ELSE d.data[i][c]])
        /\ \A i \in (r + 3)..Len(ps) : ps[i] = <<>>

\* C5 (as claimed): both renderers turn a non-empty Table with r rows into
\* exactly r + 2 newline-terminated lines and nothing else.
C5_ExactRendering ==
    (pc = "rendered" /\ ~DfEmpty(df)) => RendersAsClaimed(md_content, df, 1)

\* C5 (amended): _dataframe_to_md renders a non-empty Table as exactly the
\* header line, the separator line and one line per row, each terminated by a
\* newline; excel_to_md with a single sheet renders the same r + 2 lines
\* followed by one more newline (an empty line).
C5_ExactRenderingPerPath ==
    (pc = "rendered" /\ ~DfEmpty(df)) =>
        /\ path = "df" => RendersAsClaimed(md_content, df, 1)
        /\ path = "excel" => RendersAsClaimed(md_content, df, 2)

\* C5 witness: excel_to_md rendered a 2-column Table with two rows, one of
\* them holding a missing value.
C5_Witness ==
    /\ pc = "rendered"
    /\ path = "excel"
    /\ Len(df.columns) = 2
    /\ Len(df.data) = 2
    /\ df.data[2][1] = NaN

\* C9 (as claimed): the header parser drops only the empty fields the outer
\* pipes produce and keeps every other field, trimmed, whether or not the
\* line ends with a closing pipe.
C9_OnlyEmptyOuterFieldsDropped ==
    (pc = "parsed" /\ Len(block) >= 2) =>
        LET h == FieldsBetweenOuterPipes(block[1])
        IN  IF h = <<>> THEN parsed = None
            ELSE parsed # None /\ parsed.columns = h

(***************************************************************************)
(* Claims about detect_encoding and the operations (checked under Spec).   *)
(***************************************************************************)
\* C6: detect_encoding examines the candidates strictly in list order; the
\* candidate it returns passed both the strict decode of the sample and the
\* text read, every candidate before it failed one of the two, and nothing
\* after it was examined; a pure-ASCII file gets 'utf-8' after examining
\* only that candidate, without the code after the loop running.
C6_FirstPassingCandidateWins ==
    /\ examined = SubSeq(SUPPORTED_ENCODINGS, 1, Len(examined))
    /\ (encoding # "none" /\ ~usedFallback) =>
          LET k == Len(examined)
          IN  /\ k >= 1
              /\ encoding = examined[k]
              /\ DecodesStrict(encoding, Sample(fileBytes))
              /\ DecodesStrict(encoding, fileBytes)
              /\ \A j \in 1..(k - 1) :
                    ~(/\ DecodesStrict(examined[j], Sample(fileBytes))
                      /\ DecodesStrict(examined[j], fileBytes))
    /\ (encoding # "none" /\ \A i \in 1..Len(fileBytes) : fileBytes[i] < 128) =>
          /\ encoding = "utf-8"
          /\ examined = <<"utf-8">>
          /\ ~usedFallback

\* C6 witness: 'shift_jis' was returned for a file whose sample decodes as
\* UTF-8 while the text read under UTF-8 fails, so the second check decided.
C6_Witness ==
    /\ encoding = "shift_jis"
    /\ DecodesStrict("utf-8", Sample(fileBytes))
    /\ ~DecodesStrict("utf-8", fileBytes)

\* C7 (as claimed): no exception leaves a conversion operation or main, and
\* an operation that ends without having written its output returned False.
C7_EveryFailureCaught ==
    /\ exc = "none"
    /\ (pc = "exit" /\ op # "none") =>
          /\ ret \in {"True", "False"}
          /\ output = NoOutput => ret = "False"

Attempts == [i \in 1..Len(tried) |-> tried[i].sep]
AllParsesFailed == Len(tried) = 4 /\ \A i \in 1..Len(tried) : ~tried[i].ok
CsvFinished == op = "convert_csv_to_md" /\ pc = "exit" /\ exc = "none"

\* the delimiters are tried in the order ',' ';' tab '|', a retry happens only
\* after a failed parse, and the first successful parse is the last one made
CsvOrder ==
    /\ Attempts = SubSeq(<<",", ";", "\t", "|">>, 1, Len(tried))
    /\ \A i \in 1..(Len(tried) - 1) : ~tried[i].ok
    /\ pc = "df_to_md" => (Len(tried) >= 1 /\ tried[Len(tried)].ok)
    /\ (CsvFinished /\ ret = "True") => tried[Len(tried)].ok

\* C8 (as claimed): delimiters in the order ',' ';' tab '|', stopping at the
\* first success; failure is returned without output if and only if all four
\* parses fail.
C8_FailureIffAllParsesFail ==
    /\ CsvOrder
    /\ CsvFinished => ((ret = "False" /\ output = NoOutput) <=> AllParsesFailed)

\* C8 (amended): delimiters in the order ',' ';' tab '|', stopping at the first
\* success; if all four parses fail, failure is returned without output; and
\* failure is returned without output only if all four parses failed, or the
\* parsed table is empty, or writing the rendered Markdown failed.
C8_FailureIfAllParsesFail ==
    /\ CsvOrder
    /\ CsvFinished =>
          /\ AllParsesFailed => (ret = "False" /\ output = NoOutput)
          /\ (ret = "False" /\ output = NoOutput) =>
                \/ AllParsesFailed
                \/ tried[Len(tried)].ok /\ DfEmpty(df)
                \/ tried[Len(tried)].ok /\ md_content = TableMd(df)

\* C8 witness: the ',' parse failed, the ';' parse succeeded and the file was
\* converted and written.
C8_Witness ==
    /\ CsvFinished
    /\ ret = "True"
    /\ output # NoOutput
    /\ Attempts = <<",", ";">>

\* C10: for a file that can be opened, detect_encoding never examines a
\* candidate listed after 'latin-1', never runs the code after the loop, and
\* returns one of the candidates up to 'latin-1'.
C10_NothingAfterLatin1 ==
    fileExists =>
        /\ ~usedFallback
        /\ Len(examined) <= 11
        /\ \A i \in 1..Len(examined) :
              examined[i] \notin {"iso-8859-1", "cp1251", "cp1252", "koi8-r", "ascii"}
        /\ encoding \in {"none", "utf-8", "utf-8-sig", "gbk", "gb2312", "gb18030",
                         "big5", "shift_jis", "euc-jp", "euc-kr", "cp949",
                         "latin-1"}

\* C10 witness: every candidate before 'latin-1' was examined and rejected and
\* 'latin-1' was returned.
C10_Witness ==
    /\ fileExists
    /\ encoding = "latin-1"
    /\ Len(examined) = 11

====
